---- MODULE Spec2Model ----
(***************************************************************************)
(* The version-control tool surface of github_mcp (src/github_mcp/tools.py *)
(* and server.py) as a state machine.  The tools are thin wrappers around  *)
(* GitManager (git_utils.py), whose behaviour is taken from the design     *)
(* document: a repository is a working tree, a staged snapshot, a commit   *)
(* store and a set of branch pointers.                                     *)
(***************************************************************************)
EXTENDS Integers, Sequences, FiniteSets, TLC

VARIABLES
    default_repo_path,   \* register_tools' closure variable (REPO_PATH at startup)
    empty_commit_policy, \* does initialize commit in an empty directory?
    repos,               \* directory -> on-disk repository state
    last                 \* the most recent tool call: arguments, manager, result

vars == <<default_repo_path, empty_commit_policy, repos, last>>

---------------------------------------------------------------------------
(* Bounds of the model *)

MaxCommits == 2

(* Program constants *)

ShaLen == 40
ShortLen == 7
DefaultLimit == 50

---------------------------------------------------------------------------
(* Values *)

None == "None"
Absent == "absent"

Dirs == {".", "p"}
PathArgs == {"", "p"}
Files == {"a.txt"}
Contents == {"v1", "v2"}
Branches == {"main", "feature"}
Messages == {"", "work"}
Modes == {"soft", "mixed", "hard", "bogus"}

InitialCommitMessage == "Initial commit"
NoChanges == "No changes to commit"
DefaultBranch == "main"

Tree == [Files -> Contents \cup {Absent}]
EmptyTree == [f \in Files |-> Absent]

Hex == <<"1", "2", "3", "4", "5", "6", "7", "8", "9", "a", "b", "c", "d", "e", "f">>

RECURSIVE Zeros(_)
Zeros(n) == IF n = 0 THEN "" ELSE "0" \o Zeros(n - 1)

\* The 40-character SHA of the id-th commit of a repository's object store.
Pad == Zeros(ShaLen - 1)

ShaOf(id) == Hex[id] \o Pad

\* Python's s[:7]
Short(s) == IF Len(s) <= ShortLen THEN s ELSE SubSeq(s, 1, ShortLen)

\* Python truthiness of an optional string
Truthy(s) == s \notin {None, ""}

Ok(v) == [kind |-> "ok", value |-> v]
Err(e) == [kind |-> "error", value |-> e]

---------------------------------------------------------------------------
(* GitManager: one repository *)

FreshDir(tree) ==
    [initialized |-> FALSE, commits |-> <<>>, heads |-> [b \in Branches |-> 0],
     current |-> DefaultBranch, index |-> EmptyTree, worktree |-> tree]

HeadCommit(r) == IF r.initialized THEN r.heads[r.current] ELSE 0

TreeOf(r, id) == IF id = 0 THEN EmptyTree ELSE r.commits[id].tree

HeadTree(r) == TreeOf(r, HeadCommit(r))

IsPrefix(s, t) == Len(s) <= Len(t) /\ SubSeq(t, 1, Len(s)) = s

\* The commit a ref names: "HEAD", a branch name, or a full or abbreviated
\* SHA; 0 when it does not resolve.
Resolve(r, ref) ==
    IF ~r.initialized THEN 0
    ELSE IF ref = "HEAD" THEN HeadCommit(r)
    ELSE IF ref \in Branches THEN r.heads[ref]
    ELSE LET ids == {i \in 1..Len(r.commits) :
                        Len(ref) >= ShortLen /\ IsPrefix(ref, ShaOf(i))}
         IN IF Cardinality(ids) = 1 THEN CHOOSE i \in ids : TRUE ELSE 0

is_initialized(r) == r.initialized

\* A new commit of the staged snapshot on the current branch.
Commit(r, message) ==
    [r EXCEPT !.commits = Append(@, [parent |-> HeadCommit(r), message |-> message,
                                     tree |-> r.index]),
              !.heads[r.current] = Len(r.commits) + 1]

initialize(r, initial_commit, commit_when_empty) ==
    IF r.initialized THEN [repo |-> r, result |-> Ok("Repository already initialized")]
    ELSE LET fresh == [r EXCEPT !.initialized = TRUE, !.index = EmptyTree]
             staged == [fresh EXCEPT !.index = r.worktree]
         IN IF initial_commit /\ (r.worktree # EmptyTree \/ commit_when_empty)
            THEN [repo |-> Commit(staged, InitialCommitMessage),
                  result |-> Ok("Initialized repository with initial commit")]
            ELSE [repo |-> fresh, result |-> Ok("Initialized repository")]

get_status(r) ==
    IF ~r.initialized
    THEN [is_initialized |-> FALSE, current_branch |-> None, has_changes |-> FALSE,
          staged_files |-> {}, modified_files |-> {}, untracked_files |-> {}]
    ELSE LET staged == {f \in Files : r.index[f] # HeadTree(r)[f]}
             modified == {f \in Files : r.index[f] # Absent /\ r.worktree[f] # r.index[f]}
             untracked == {f \in Files : r.index[f] = Absent /\ r.worktree[f] # Absent}
         IN [is_initialized |-> TRUE, current_branch |-> r.current,
             has_changes |-> (staged \cup modified \cup untracked) # {},
             staged_files |-> staged, modified_files |-> modified,
             untracked_files |-> untracked]

commit_all(r, message) ==
    IF message = "" THEN [repo |-> r, result |-> Err("ValidationError")]
    ELSE LET staged == [r EXCEPT !.index = r.worktree]
         IN IF staged.index = HeadTree(staged)
            THEN [repo |-> staged, result |-> Ok(NoChanges)]
            ELSE [repo |-> Commit(staged, message),
                  result |-> Ok(ShaOf(Len(r.commits) + 1))]

RECURSIVE History(_, _, _)
History(r, id, limit) ==
    IF id = 0 \/ limit = 0 THEN <<>>
    ELSE <<[sha |-> ShaOf(id), message |-> r.commits[id].message]>>
         \o History(r, r.commits[id].parent, limit - 1)

GitManager_list_commits(r, branch, limit) ==
    IF ~r.initialized \/ Len(r.commits) = 0
    THEN [repo |-> r, result |-> Err("RepositoryNotInitializedError")]
    ELSE IF Resolve(r, branch) = 0 THEN [repo |-> r, result |-> Err("NotFoundError")]
    ELSE [repo |-> r,
          result |-> Ok([branch |-> branch,
                         commits |-> History(r, Resolve(r, branch), limit)])]

rollback(r, commit_sha, mode) ==
    LET id == Resolve(r, commit_sha)
        moved == [r EXCEPT !.heads[r.current] = id]
    IN IF mode \notin {"soft", "mixed", "hard"}
       THEN [repo |-> r, result |-> Err("ValidationError")]
       ELSE IF id = 0 THEN [repo |-> r, result |-> Err("NotFoundError")]
       ELSE [repo |-> CASE mode = "soft" -> moved
                        [] mode = "mixed" -> [moved EXCEPT !.index = TreeOf(r, id)]
                        [] mode = "hard" -> [moved EXCEPT !.index = TreeOf(r, id),
                                                          !.worktree = TreeOf(r, id)],
             result |-> Ok(ShaOf(id))]

FileStatus(old, new) ==
    IF old = Absent THEN "added" ELSE IF new = Absent THEN "deleted" ELSE "modified"

GitManager_compare_commits(r, from_sha, to_sha) ==
    LET from == Resolve(r, from_sha)
        to == Resolve(r, to_sha)
    IN IF from = 0 \/ to = 0 THEN [repo |-> r, result |-> Err("NotFoundError")]
       ELSE [repo |-> r,
             result |-> Ok([from_sha |-> ShaOf(from), to_sha |-> ShaOf(to),
                            files_changed |->
                              {[path |-> f,
                                status |-> FileStatus(TreeOf(r, from)[f], TreeOf(r, to)[f])] :
                               f \in {g \in Files : TreeOf(r, from)[g] # TreeOf(r, to)[g]}}])]

GitManager_create_branch(r, branch_name, from_ref) ==
    LET id == Resolve(r, IF from_ref = None THEN "HEAD" ELSE from_ref)
    IN IF r.initialized /\ r.heads[branch_name] # 0
       THEN [repo |-> r, result |-> Err("ConflictError")]
       ELSE IF id = 0 THEN [repo |-> r, result |-> Err("NotFoundError")]
       ELSE [repo |-> [r EXCEPT !.heads[branch_name] = id], result |-> Ok(branch_name)]

GitManager_switch_branch(r, branch_name) ==
    IF ~r.initialized \/ r.heads[branch_name] = 0
    THEN [repo |-> r, result |-> Err("NotFoundError")]
    ELSE [repo |-> [r EXCEPT !.current = branch_name,
                             !.index = TreeOf(r, r.heads[branch_name]),
                             !.worktree = TreeOf(r, r.heads[branch_name])],
          result |-> Ok(branch_name)]

\* Branch names in listing order.
BranchOrder == <<"feature", "main">>

GitManager_list_branches(r) ==
    LET Info(b) == [name |-> b, is_current |-> (b = r.current),
                    last_commit_sha |-> ShaOf(r.heads[b]),
                    last_commit_message |-> r.commits[r.heads[b]].message]
        present == SelectSeq(BranchOrder, LAMBDA b : r.initialized /\ r.heads[b] # 0)
    IN [i \in 1..Len(present) |-> Info(present[i])]

---------------------------------------------------------------------------
(* register_tools: the tool surface *)

\* GitManager(path): the directory the manager is bound to (Path("") is the
\* process's current directory).
GitManager(path) == IF path = "" THEN "." ELSE path

\* The manager a tool obtains, or None when get_manager raises ValueError.
get_manager(repo_path) ==
    LET path == IF Truthy(repo_path) THEN repo_path ELSE default_repo_path
    IN IF ~Truthy(path) THEN None ELSE GitManager(path)

\* What a tool call leaves behind: the repositories, the manager it used and
\* its return value or the error it raised.
Outcome(manager, out) ==
    [repos |-> [repos EXCEPT ![manager] = out.repo], manager |-> manager,
     result |-> out.result]

Raised(e) == [repos |-> repos, manager |-> None, result |-> Err(e)]

\* Variant: the first commit is made by the tool, through commit_all.
initialize_repo_committing(repo_path, initial_commit) ==
    LET manager == GitManager(repo_path)
        out == initialize(repos[manager], FALSE, empty_commit_policy)
    IN IF initial_commit
       THEN Outcome(manager, [repo |-> commit_all(out.repo, InitialCommitMessage).repo,
                              result |-> out.result])
       ELSE Outcome(manager, out)

initialize_repo(repo_path, initial_commit) ==
    LET manager == GitManager(repo_path)
    IN Outcome(manager, initialize(repos[manager], initial_commit, empty_commit_policy))

\* Variant: the status query bootstraps the repository like a mutating tool.
get_repo_status_initializing(repo_path) ==
    LET manager == GitManager(repo_path)
        r == IF ~is_initialized(repos[manager])
             THEN initialize(repos[manager], FALSE, empty_commit_policy).repo
             ELSE repos[manager]
    IN Outcome(manager, [repo |-> r, result |-> Ok(get_status(r))])

get_repo_status(repo_path) ==
    LET manager == GitManager(repo_path)
    IN Outcome(manager, [repo |-> repos[manager], result |-> Ok(get_status(repos[manager]))])

\* Variant: the lazy initialization asks for an initial commit.
commit_all_changes_initial_commit(repo_path, message) ==
    LET manager == GitManager(repo_path)
        r == IF ~is_initialized(repos[manager])
             THEN initialize(repos[manager], TRUE, empty_commit_policy).repo
             ELSE repos[manager]
    IN Outcome(manager, commit_all(r, message))

commit_all_changes(repo_path, message) ==
    LET manager == GitManager(repo_path)
        r == IF ~is_initialized(repos[manager])
             THEN initialize(repos[manager], FALSE, empty_commit_policy).repo
             ELSE repos[manager]
    IN Outcome(manager, commit_all(r, message))

\* Variant: limit is not passed on, so the manager's default applies.
list_commits_default_limit(repo_path, branch, limit) ==
    LET manager == get_manager(repo_path)
    IN IF manager = None THEN Raised("ValueError")
       ELSE Outcome(manager, GitManager_list_commits(repos[manager], branch, DefaultLimit))

list_commits(repo_path, branch, limit) ==
    LET manager == get_manager(repo_path)
    IN IF manager = None THEN Raised("ValueError")
       ELSE Outcome(manager, GitManager_list_commits(repos[manager], branch, limit))

\* The tool with the mode it passes to the manager chosen by the caller of
\* this operator.
RollbackWith(repo_path, commit_sha, mode, passed) ==
    LET manager == get_manager(repo_path)
        out == rollback(repos[manager], commit_sha, passed)
    IN IF manager = None THEN Raised("ValueError")
       ELSE IF out.result.kind = "error" THEN Outcome(manager, out)
       ELSE Outcome(manager,
                    [repo |-> out.repo,
                     result |-> Ok("Rolled back to " \o Short(commit_sha)
                                   \o ". New HEAD: " \o Short(out.result.value)
                                   \o " (mode: " \o mode \o ")")])

\* Variant: mode is not passed on, so the manager's default (soft) applies.
rollback_to_commit_default_mode(repo_path, commit_sha, mode) ==
    RollbackWith(repo_path, commit_sha, mode, "soft")

\* Variant: every rollback is a hard reset.
rollback_to_commit_hard(repo_path, commit_sha, mode) ==
    RollbackWith(repo_path, commit_sha, mode, "hard")

rollback_to_commit(repo_path, commit_sha, mode) ==
    LET manager == get_manager(repo_path)
        out == rollback(repos[manager], commit_sha, mode)
    IN IF manager = None THEN Raised("ValueError")
       ELSE IF out.result.kind = "error" THEN Outcome(manager, out)
       ELSE Outcome(manager,
                    [repo |-> out.repo,
                     result |-> Ok("Rolled back to " \o Short(commit_sha)
                                   \o ". New HEAD: " \o Short(out.result.value)
                                   \o " (mode: " \o mode \o ")")])

compare_commits(repo_path, from_commit, to_commit) ==
    LET manager == get_manager(repo_path)
    IN IF manager = None THEN Raised("ValueError")
       ELSE Outcome(manager, GitManager_compare_commits(repos[manager], from_commit, to_commit))

\* Variant: the new branch is checked out as well.
create_branch_switching(repo_path, branch_name, from_ref) ==
    LET manager == get_manager(repo_path)
        out == GitManager_create_branch(repos[manager], branch_name, from_ref)
    IN IF manager = None THEN Raised("ValueError")
       ELSE IF out.result.kind = "error" THEN Outcome(manager, out)
       ELSE Outcome(manager,
                    [repo |-> GitManager_switch_branch(out.repo, branch_name).repo,
                     result |-> Ok("Created branch: " \o out.result.value)])

create_branch(repo_path, branch_name, from_ref) ==
    LET manager == get_manager(repo_path)
        out == GitManager_create_branch(repos[manager], branch_name, from_ref)
    IN IF manager = None THEN Raised("ValueError")
       ELSE IF out.result.kind = "error" THEN Outcome(manager, out)
       ELSE Outcome(manager, [repo |-> out.repo,
                              result |-> Ok("Created branch: " \o out.result.value)])

switch_branch(repo_path, branch_name) ==
    LET manager == get_manager(repo_path)
        out == GitManager_switch_branch(repos[manager], branch_name)
    IN IF manager = None THEN Raised("ValueError")
       ELSE IF out.result.kind = "error" THEN Outcome(manager, out)
       ELSE Outcome(manager, [repo |-> out.repo,
                              result |-> Ok("Switched to branch: " \o out.result.value)])

\* Variant: the marker follows the branch name instead of is_current.
BranchLine_main_marked(b) ==
    (IF b.name = "main" THEN "* " ELSE "  ") \o b.name \o " (" \o b.last_commit_sha
    \o "): " \o b.last_commit_message

\* One line of the listing.
BranchLine(b) ==
    (IF b.is_current THEN "* " ELSE "  ") \o b.name \o " (" \o b.last_commit_sha
    \o "): " \o b.last_commit_message

BranchLines(branches) == [i \in 1..Len(branches) |-> BranchLine(branches[i])]

\* Python's "\n".join(lines)
RECURSIVE Join(_)
Join(lines) ==
    IF Len(lines) = 0 THEN ""
    ELSE IF Len(lines) = 1 THEN lines[1]
    ELSE lines[1] \o "\n" \o Join(Tail(lines))

list_branches(repo_path) ==
    LET manager == get_manager(repo_path)
    IN IF manager = None THEN Raised("ValueError")
       ELSE Outcome(manager,
                    [repo |-> repos[manager],
                     result |-> Ok(Join(BranchLines(GitManager_list_branches(repos[manager]))))])

---------------------------------------------------------------------------
(* The state machine: one action per tool call, plus edits of the working
   tree made outside the tools *)

ShaArgs == {ShaOf(i) : i \in 1..MaxCommits} \cup {Short(ShaOf(1))}
DiffArgs == {<<ShaOf(1), ShaOf(1)>>, <<ShaOf(1), ShaOf(2)>>}
RefArgs == {None, "main", ShaOf(1)}
BranchArgs == {"HEAD", "feature"}
Limits == {1, 2}
EditedDirs == {"p"}

\* The status a manager would have reported just before a call.
Before(manager) == IF manager = None THEN get_status(FreshDir(EmptyTree))
                   ELSE get_status(repos[manager])

NoCall == [op |-> "none", args |-> <<>>, manager |-> None, before |-> Before(None),
           result |-> Ok(""), scenario |-> 0]

\* Progress through: create_branch("feature"), switch_branch("feature"),
\* commit_all_changes returning a SHA, switch_branch("main"), on one repository.
Scenario(op, args, out) ==
    LET ok == out.result.kind = "ok"
        same == out.manager = last.manager
    IN IF op = "create_branch" /\ ok /\ args.branch_name = "feature" /\ args.from_ref = None
          /\ repos[out.manager].current = "main"
       THEN 1
       ELSE IF last.scenario = 1 /\ same /\ op = "switch_branch" /\ ok
               /\ args.branch_name = "feature"
       THEN 2
       ELSE IF last.scenario = 2 /\ same /\ op = "commit_all_changes" /\ ok
               /\ out.result.value # NoChanges
       THEN 3
       ELSE IF last.scenario = 3 /\ same /\ op = "switch_branch" /\ ok
               /\ args.branch_name = "main"
       THEN 4
       ELSE 0

Call(op, args, out) ==
    /\ \A d \in Dirs : Len(out.repos[d].commits) <= MaxCommits
    /\ repos' = out.repos
    /\ last' = [op |-> op, args |-> args, manager |-> out.manager,
                before |-> Before(out.manager), result |-> out.result,
                scenario |-> Scenario(op, args, out)]
    /\ UNCHANGED <<default_repo_path, empty_commit_policy>>

InitializeRepo(paths) ==
    \E repo_path \in paths, initial_commit \in BOOLEAN :
        Call("initialize_repo", [repo_path |-> repo_path, initial_commit |-> initial_commit],
             initialize_repo(repo_path, initial_commit))

GetRepoStatus(paths) ==
    \E repo_path \in paths :
        Call("get_repo_status", [repo_path |-> repo_path], get_repo_status(repo_path))

CommitAllChanges(paths) ==
    \E repo_path \in paths, message \in Messages :
        Call("commit_all_changes", [repo_path |-> repo_path, message |-> message],
             commit_all_changes(repo_path, message))

ListCommits(paths) ==
    \E repo_path \in paths, branch \in BranchArgs, limit \in Limits :
        Call("list_commits", [repo_path |-> repo_path, branch |-> branch, limit |-> limit],
             list_commits(repo_path, branch, limit))

RollbackToCommit(paths) ==
    \E repo_path \in paths, commit_sha \in ShaArgs, mode \in Modes :
        Call("rollback_to_commit",
             [repo_path |-> repo_path, commit_sha |-> commit_sha, mode |-> mode],
             rollback_to_commit(repo_path, commit_sha, mode))

CompareCommits(paths) ==
    \E repo_path \in paths, refs \in DiffArgs :
        Call("compare_commits",
             [repo_path |-> repo_path, from_commit |-> refs[1], to_commit |-> refs[2]],
             compare_commits(repo_path, refs[1], refs[2]))

CreateBranch(paths) ==
    \E repo_path \in paths, branch_name \in Branches, from_ref \in RefArgs :
        Call("create_branch",
             [repo_path |-> repo_path, branch_name |-> branch_name, from_ref |-> from_ref],
             create_branch(repo_path, branch_name, from_ref))

SwitchBranch(paths) ==
    \E repo_path \in paths, branch_name \in Branches :
        Call("switch_branch", [repo_path |-> repo_path, branch_name |-> branch_name],
             switch_branch(repo_path, branch_name))

ListBranches(paths) ==
    \E repo_path \in paths :
        Call("list_branches", [repo_path |-> repo_path], list_branches(repo_path))

\* A file of a working tree is written or deleted outside the tools.
EditWorkingTree ==
    \E d \in EditedDirs, f \in Files, c \in Contents \cup {Absent} :
        /\ repos[d].worktree[f] # c
        /\ repos' = [repos EXCEPT ![d].worktree[f] = c]
        /\ last' = IF last.scenario = 0 THEN NoCall
                   ELSE [NoCall EXCEPT !.manager = last.manager, !.scenario = last.scenario]
        /\ UNCHANGED <<default_repo_path, empty_commit_policy>>

\* Every tool, with repo_path given or omitted, on directories whose
\* contents were written before the server started.
Init ==
    /\ default_repo_path \in {None, "", "p"}
    /\ empty_commit_policy \in BOOLEAN
    /\ repos \in [Dirs -> {FreshDir(t) : t \in Tree}]
    /\ last = NoCall

Next ==
    \/ InitializeRepo(PathArgs)
    \/ GetRepoStatus(PathArgs)
    \/ CommitAllChanges(PathArgs)
    \/ ListCommits(PathArgs)
    \/ RollbackToCommit(PathArgs)
    \/ CompareCommits(PathArgs)
    \/ CreateBranch(PathArgs)
    \/ SwitchBranch(PathArgs)
    \/ ListBranches(PathArgs)

Spec == Init /\ [][Next]_vars

\* One repository, named explicitly in every call, whose working tree is
\* edited between the calls.
InitRepo ==
    /\ default_repo_path = None
    /\ empty_commit_policy \in BOOLEAN
    /\ repos = [d \in Dirs |-> FreshDir(EmptyTree)]
    /\ last = NoCall

NextRepo ==
    \/ InitializeRepo(EditedDirs)
    \/ GetRepoStatus(EditedDirs)
    \/ CommitAllChanges(EditedDirs)
    \/ ListCommits(EditedDirs)
    \/ RollbackToCommit(EditedDirs)
    \/ CompareCommits(EditedDirs)
    \/ CreateBranch(EditedDirs)
    \/ SwitchBranch(EditedDirs)
    \/ ListBranches(EditedDirs)
    \/ EditWorkingTree

SpecRepo == InitRepo /\ [][NextRepo]_vars

---------------------------------------------------------------------------
(* Properties *)

ReadOnlyOps == {"get_repo_status", "list_commits", "compare_commits", "list_branches"}
ToolOps == ReadOnlyOps \cup {"initialize_repo", "commit_all_changes", "rollback_to_commit",
                             "create_branch", "switch_branch"}

Returned(op) == last.op = op /\ last.result.kind = "ok"

\* Nothing staged, modified or untracked: working tree = staged snapshot = HEAD.
Clean(r) == r.worktree = r.index /\ r.index = HeadTree(r)

\* C1: a read-only tool call never changes whether any directory is
\* initialized, and after commit_all_changes the repository it was called on
\* is initialized.
C1_LazyInitOnlyWhenMutating ==
    [][/\ last'.op \in ReadOnlyOps =>
            \A d \in Dirs : repos'[d].initialized = repos[d].initialized
       /\ last'.op = "commit_all_changes" => repos'[last'.manager].initialized]_vars

\* C1 witness: commit_all_changes ran on a directory that was not initialized
\* and left it initialized.
C1_Witness ==
    /\ last.op = "commit_all_changes"
    /\ ~last.before.is_initialized
    /\ repos[last.manager].initialized

\* C2: a tool call that returns an error leaves every repository as it was
\* before the call (so commit_all_changes with an empty message on an
\* uninitialized path leaves the path uninitialized).
C2_ErrorsLeaveStateUnchanged ==
    [][last'.result.kind = "error" => repos' = repos]_vars

\* C3: initialize_repo on a repository that is already initialized returns
\* without error and changes nothing of it, whatever initial_commit is.
C3_InitializeIdempotent ==
    [][(last'.op = "initialize_repo" /\ repos[last'.manager].initialized) =>
            last'.result.kind = "ok" /\ repos' = repos]_vars

\* C3 witness: initialize_repo asked for an initial commit on an initialized
\* repository with commits and uncommitted changes.
C3_Witness ==
    /\ Returned("initialize_repo")
    /\ last.args.initial_commit
    /\ last.before.is_initialized
    /\ last.before.has_changes
    /\ Len(repos[last.manager].commits) >= 1

\* C4: commit_all_changes with a non-empty message on a clean working tree
\* returns the "no changes" sentinel and leaves the commits and the branch
\* pointers as they were.
C4_CleanCommitCreatesNothing ==
    [][(/\ last'.op = "commit_all_changes"
        /\ last'.args.message # ""
        /\ Clean(repos[last'.manager])) =>
            /\ last'.result = Ok(NoChanges)
            /\ repos'[last'.manager].commits = repos[last'.manager].commits
            /\ repos'[last'.manager].heads = repos[last'.manager].heads]_vars

\* C4 witness: the sentinel was returned for a directory that the call itself
\* initialized.
C4_Witness ==
    /\ Returned("commit_all_changes")
    /\ last.result.value = NoChanges
    /\ ~last.before.is_initialized
    /\ Len(repos[last.manager].commits) = 0

\* The commit a record of a listing denotes.
RecordId(r, record) == Resolve(r, record.sha)

\* C5: right after commit_all_changes returned a SHA, list_commits of HEAD
\* with limit 1 on that repository returns exactly one record, with that SHA
\* and the message committed; and a listing holds at most limit records, each
\* the parent of the one before it.
C5_CommitListRoundTrip ==
    /\ (Returned("commit_all_changes") /\ last.result.value # NoChanges) =>
         LET listed == list_commits(last.manager, "HEAD", 1).result
         IN /\ listed.kind = "ok"
            /\ listed.value.commits =
                 <<[sha |-> last.result.value, message |-> last.args.message]>>
    /\ Returned("list_commits") =>
         LET commits == last.result.value.commits
             r == repos[last.manager]
         IN /\ Len(commits) <= last.args.limit
            /\ Len(commits) >= 1
            /\ RecordId(r, commits[1]) = Resolve(r, last.args.branch)
            /\ \A i \in 1..(Len(commits) - 1) :
                 r.commits[RecordId(r, commits[i])].parent = RecordId(r, commits[i + 1])

\* C5 witness: the SHA returned is that of a second commit, so limit 1 cuts
\* the history.
C5_Witness ==
    /\ Returned("commit_all_changes")
    /\ last.result.value = ShaOf(2)
    /\ repos[last.manager].commits[2].parent = 1

\* C6: right after a hard rollback, get_repo_status on that repository
\* reports no staged, modified or untracked file and has_changes false.
C6_HardRollbackIsClean ==
    (Returned("rollback_to_commit") /\ last.args.mode = "hard") =>
        LET status == get_repo_status(last.manager).result.value
        IN /\ status.staged_files = {}
           /\ status.modified_files = {}
           /\ status.untracked_files = {}
           /\ ~status.has_changes

\* C6 witness: the hard rollback ran on a repository with a staged and
\* modified file and moved HEAD to another commit's tree.
C6_Witness ==
    /\ Returned("rollback_to_commit")
    /\ last.args.mode = "hard"
    /\ last.before.staged_files # {}
    /\ last.before.modified_files # {}

\* C6 witness for untracked files is the same call on a tree with one.
C6_UntrackedWitness ==
    /\ Returned("rollback_to_commit")
    /\ last.args.mode = "hard"
    /\ last.before.untracked_files # {}

\* What a soft rollback leaves alone: only the current branch's pointer
\* moves, to the commit the argument resolves to.
SoftFrame(old, new, commit_sha) ==
    /\ Resolve(old, commit_sha) # 0
    /\ new = [old EXCEPT !.heads[old.current] = Resolve(old, commit_sha)]
    /\ HeadCommit(new) = Resolve(old, commit_sha)

HeadDiff(old, new) == {f \in Files : HeadTree(old)[f] # HeadTree(new)[f]}

\* C7 as stated: a soft rollback moves only the current branch pointer, and
\* the status that follows reports every file that differs between the old
\* and the new HEAD as staged and not as modified.
C7_SoftRollbackStagesHeadDiff ==
    [][(last'.op = "rollback_to_commit" /\ last'.result.kind = "ok"
        /\ last'.args.mode = "soft") =>
            LET old == repos[last'.manager]
                new == repos'[last'.manager]
                status == get_status(new)
            IN /\ SoftFrame(old, new, last'.args.commit_sha)
               /\ \A f \in HeadDiff(old, new) :
                     f \in status.staged_files /\ f \notin status.modified_files]_vars

\* C7 amended: a soft rollback moves only the current branch pointer; when
\* the tree was clean before it, the status that follows reports exactly the
\* files that differ between the old and the new HEAD as staged and none as
\* modified or untracked.
C7_SoftRollbackOnCleanTree ==
    [][(last'.op = "rollback_to_commit" /\ last'.result.kind = "ok"
        /\ last'.args.mode = "soft") =>
            LET old == repos[last'.manager]
                new == repos'[last'.manager]
                status == get_status(new)
            IN /\ SoftFrame(old, new, last'.args.commit_sha)
               /\ Clean(old) =>
                     /\ status.staged_files = HeadDiff(old, new)
                     /\ status.modified_files = {}
                     /\ status.untracked_files = {}]_vars

\* C7 witness: a soft rollback on a clean tree to a commit with another tree.
C7_Witness ==
    /\ Returned("rollback_to_commit")
    /\ last.args.mode = "soft"
    /\ ~last.before.has_changes
    /\ get_status(repos[last.manager]).staged_files # {}

Marked(lines) == {i \in 1..Len(lines) : SubSeq(lines[i], 1, 2) = "* "}

\* C8: the listing of a repository has one line per branch, and exactly one
\* line is marked current when the repository has a commit, none when it has
\* no commit; the marked line is that of the checked-out branch.
C8_OneCurrentBranch ==
    \A d \in Dirs :
        LET r == repos[d]
            branches == GitManager_list_branches(r)
            lines == BranchLines(branches)
        IN /\ list_branches(d).result = Ok(Join(lines))
           /\ Len(lines) = Cardinality({b \in Branches : r.heads[b] # 0})
           /\ Cardinality(Marked(lines)) = (IF Len(r.commits) >= 1 THEN 1 ELSE 0)
           /\ Marked(lines) = {i \in 1..Len(lines) : branches[i].name = r.current}

\* C8 witness: list_branches listed two branches with "feature" current.
C8_Witness ==
    /\ Returned("list_branches")
    /\ repos[last.manager].current = "feature"
    /\ LET lines == BranchLines(GitManager_list_branches(repos[last.manager]))
       IN Len(lines) = 2 /\ Marked(lines) = {1} /\ last.result.value = Join(lines)

\* C8 witness for the commit-less case.
C8_EmptyWitness ==
    /\ Returned("list_branches")
    /\ repos[last.manager].initialized
    /\ last.result.value = ""

\* C9: a tool call that omits repo_path while a default path is configured
\* acts on the default path.
C9_OmittedPathUsesDefault ==
    (last.op \in ToolOps /\ last.args.repo_path = "" /\ Truthy(default_repo_path)) =>
        last.manager = GitManager(default_repo_path)

\* C9, second half: no step changes the default path.
C9_DefaultPathNeverChanges == [][default_repo_path' = default_repo_path]_vars

\* C10: a successful create_branch changes nothing but the new branch's
\* pointer, which is the commit from_ref (HEAD when omitted) resolves to; on
\* an existing name it fails with ConflictError and changes nothing; and
\* after create_branch("feature"), switch_branch("feature"), a commit and
\* switch_branch("main"), the listing has two branches, "main" current, and
\* the tip of "main" is the parent of the tip of "feature".
C10_CreateBranchOnlyAddsPointer ==
    [][/\ (last'.op = "create_branch" /\ last'.result.kind = "ok") =>
            LET old == repos[last'.manager]
                ref == IF last'.args.from_ref = None THEN "HEAD" ELSE last'.args.from_ref
            IN /\ Resolve(old, ref) # 0
               /\ repos' = [repos EXCEPT ![last'.manager].heads[last'.args.branch_name] =
                                            Resolve(old, ref)]
       /\ (last'.op = "create_branch" /\ last'.manager # None
           /\ repos[last'.manager].initialized
           /\ repos[last'.manager].heads[last'.args.branch_name] # 0) =>
            last'.result = Err("ConflictError") /\ repos' = repos
       /\ last'.scenario = 4 =>
            LET r == repos'[last'.manager]
                lines == BranchLines(GitManager_list_branches(r))
            IN /\ (list_branches(last.manager).result)' = Ok(Join(lines))
               /\ Len(lines) = 2
               /\ Marked(lines) = {2}
               /\ r.current = "main"
               /\ r.heads["feature"] # 0
               /\ r.commits[r.heads["feature"]].parent = r.heads["main"]]_vars

\* C10 witness: the four calls of the scenario have run.
C10_Witness ==
    /\ last.scenario = 4
    /\ Returned("switch_branch")

====
